---- MODULE Spec2Model ----
(***************************************************************************)
(* A model of the CDKTF VPC peering module: the expansion of the peering   *)
(* matrix into PeerConfigs (helpers.go), the construction of the Terraform *)
(* stack, one loop iteration per PeerConfig (main.go), and the account-id  *)
(* helper.  Go strings that are split, compared for a prefix or used both  *)
(* as a name and as an id are tuples of characters; regions and literal    *)
(* attribute values are plain strings.                                     *)
(***************************************************************************)
EXTENDS Integers, Sequences, FiniteSets, TLC

VARIABLES
    cfg,                    \* the loaded YAMLConfig (with the document order of the matrix keys)
    selection,              \* CDKTF_SOURCE / the filter a caller passes
    pc,                     \* position of the process
    via,                    \* "main": through main(); "direct": ConvertToPeerConfigs called by a caller
    sourceFilter,           \* ConvertToPeerConfigs' sourceFilter argument
    peerConfigs,            \* the []PeerConfig returned by ConvertToPeerConfigs
    origin,                 \* for each PeerConfig, the <<source, position in its target list>> it came from
    i,                      \* NewMyStack's loop index (0-based, as in the Go code)
    resources,              \* everything declared on the stack, in declaration order
    vpcPeeringConnections,  \* NewMyStack's accumulators (main.go:33-35)
    sourceMainRouteTables,
    peerMainRouteTables,
    fatal,                  \* the log.Fatalf that ended the process, if any
    run,                    \* "first" or "second" pass over the same configuration
    firstPeerConfigs,       \* the first pass' PeerConfigs and resources, kept for comparison
    firstResources,
    roleArn,                \* input and output of GetAccountIDFromRoleArn when checked alone
    accountID

vars == <<cfg, selection, pc, via, sourceFilter, peerConfigs, origin, i, resources,
          vpcPeeringConnections, sourceMainRouteTables, peerMainRouteTables, fatal,
          run, firstPeerConfigs, firstResources, roleArn, accountID>>

(***************************************************************************)
(* Bounds                                                                  *)
(***************************************************************************)
MaxEdges == 3
MaxArnLen == 5

(***************************************************************************)
(* Strings                                                                 *)
(***************************************************************************)
Range(s) == {s[k] : k \in 1..Len(s)}

Min(S) == CHOOSE x \in S : \A y \in S : x <= y

EmptyString == <<>>

DefaultSource == <<"d", "e", "f", "a", "u", "l", "t", "-", "s", "o", "u", "r", "c", "e">>

DefaultRegion == "us-west-2"

NameA == <<"a">>
NameAB == <<"a", "b">>

Vpc1 == <<"v", "p", "c", "-", "1">>
Vpc2 == <<"v", "p", "c", "-", "2">>
Vpc3 == <<"v", "p", "c", "-", "3">>

ArnTestValid == <<"a", "r", "n", ":", "a", "w", "s", ":", "i", "a", "m", ":", ":", "1", "2", "3", "4", "5", "6", "7", "8", "9", "0", "1", "2", ":", "r", "o", "l", "e", "/", "M", "y", "R", "o", "l", "e">>
ArnValid == <<"a", "r", "n", ":", "a", "w", "s", ":", "i", "a", "m", ":", ":", "1", "2", "3", "4", "5", "6", "7", "8", "9", "0", "1", "2", ":", "r", "o", "l", "e", "/", "X">>
ArnNoAccount == <<"a", "r", "n", ":", "a", "w", "s", ":", "i", "a", "m", ":", ":", "r", "o", "l", "e", "/", "M", "y", "R", "o", "l", "e">>
ArnShort == <<"a", "r", "n", ":", "a", "w", "s", ":", "i", "a", "m", ":", "1", "2", "3", "4", "5", "6", "7", "8", "9", "0", "1", "2">>
ArnFoo == <<"a", "r", "n", ":", "a", "w", "s", ":", "i", "a", "m", ":", ":", "1", "2", "3", ":", "r", "o", "l", "e", "/", "x">>
ArnBar == <<"a", "r", "n", ":", "a", "w", "s", ":", "i", "a", "m", ":", ":", "4", "5", "6", ":", "r", "o", "l", "e", "/", "y">>

(***************************************************************************)
(* strings.Split(s, ":"): the pieces of s between the separators; a string *)
(* with n separators has n+1 pieces, the empty string has one empty piece. *)
(***************************************************************************)
RECURSIVE SplitFrom(_, _, _, _)
SplitFrom(s, sep, k, piece) ==
    IF k > Len(s) THEN <<piece>>
    ELSE IF s[k] = sep THEN <<piece>> \o SplitFrom(s, sep, k + 1, <<>>)
    ELSE SplitFrom(s, sep, k + 1, Append(piece, s[k]))

Split(s, sep) == SplitFrom(s, sep, 1, <<>>)

\* parts[4] in Go is the fifth piece
GetAccountIDFromRoleArn(arn) ==
    LET parts == Split(arn, ":")
    IN  IF Len(parts) >= 5 THEN parts[5] ELSE EmptyString

ArnPrefix == <<"a", "r", "n", ":", "a", "w", "s", ":", "i", "a", "m", ":", ":">>

IsDigit(ch) == ch \in {"0", "1", "2", "3", "4", "5", "6", "7", "8", "9"}

\* the digits of s from position k on, up to the first character that is none
RECURSIVE DigitsFrom(_, _)
DigitsFrom(s, k) ==
    IF k <= Len(s) /\ IsDigit(s[k]) THEN <<s[k]>> \o DigitsFrom(s, k + 1) ELSE <<>>

\* part_003:624-631, the variant that matches ^arn:aws:iam::(\d+): instead of
\* splitting: the digits between the prefix and the next colon
GetAccountIDFromRoleArnRegexp(arn) ==
    LET start == Len(ArnPrefix) + 1
        digits == DigitsFrom(arn, start)
        after == start + Len(digits)
    IN  IF /\ Len(arn) >= Len(ArnPrefix)
           /\ SubSeq(arn, 1, Len(ArnPrefix)) = ArnPrefix
           /\ Len(digits) >= 1
           /\ after <= Len(arn)
           /\ arn[after] = ":"
          THEN digits
          ELSE EmptyString

(***************************************************************************)
(* Configuration                                                           *)
(***************************************************************************)
PeerNames == {NameA, NameAB}

\* peer entries as the YAML document writes them; a key may be left out
YAMLPeerDocs ==
    { [vpc_id |-> Vpc1, region |-> "us-west-2", role_arn |-> ArnFoo, cidr_block |-> "10.0.0.0/16",
       dns_resolution |-> TRUE, has_additional_routes |-> FALSE],
      [vpc_id |-> Vpc2, region |-> "us-east-1", role_arn |-> ArnBar, cidr_block |-> "10.1.0.0/16",
       dns_resolution |-> FALSE, has_additional_routes |-> TRUE],
      [vpc_id |-> Vpc3, role_arn |-> ArnNoAccount, cidr_block |-> "10.2.0.0/16",
       dns_resolution |-> TRUE, has_additional_routes |-> TRUE],
      [role_arn |-> ArnShort] }

\* yaml.Unmarshal into a YAMLPeer: a key the document leaves out keeps the
\* zero value of its Go type
Unmarshal(doc) ==
    [VpcId |-> IF "vpc_id" \in DOMAIN doc THEN doc.vpc_id ELSE EmptyString,
     Region |-> IF "region" \in DOMAIN doc THEN doc.region ELSE "",
     RoleArn |-> IF "role_arn" \in DOMAIN doc THEN doc.role_arn ELSE EmptyString,
     CidrBlock |-> IF "cidr_block" \in DOMAIN doc THEN doc.cidr_block ELSE "",
     DnsResolution |-> IF "dns_resolution" \in DOMAIN doc THEN doc.dns_resolution ELSE FALSE,
     HasAdditionalRoutes |->
        IF "has_additional_routes" \in DOMAIN doc THEN doc.has_additional_routes ELSE FALSE]

YAMLPeers == {Unmarshal(doc) : doc \in YAMLPeerDocs}

TargetLists == UNION {[1..n -> PeerNames] : n \in 0..MaxEdges}

KeyOrders == {<<>>, <<NameA>>, <<NameAB>>, <<NameA, NameAB>>, <<NameAB, NameA>>}

\* the number of targets the matrix names under the given keys
RECURSIVE TargetCount(_, _)
TargetCount(m, keys) ==
    IF keys = <<>> THEN 0 ELSE Len(m[Head(keys)]) + TargetCount(m, Tail(keys))

\* yaml.Unmarshal into YAMLConfig (helpers.go:39-49): the peers map, the peering
\* matrix map, and (not kept by the Go map) the order in which the document
\* lists the matrix keys
LoadConfig ==
    UNION { { [Peers |-> p, PeeringMatrix |-> m, matrixKeys |-> ks] :
                p \in UNION {[D -> YAMLPeers] : D \in {PeerNames, {NameA}}},
                m \in {mm \in [Range(ks) -> TargetLists] : TargetCount(mm, ks) <= MaxEdges} } :
            ks \in KeyOrders }

NoFatal == [msg |-> "", arg |-> EmptyString]

Fatalf(msg, arg) == [msg |-> msg, arg |-> arg]

(***************************************************************************)
(* ConvertToPeerConfigs (helpers.go:55-93)                                 *)
(***************************************************************************)
SourceSelectedByPrefix(source, filter) ==
    /\ Len(filter) <= Len(source)
    /\ SubSeq(source, 1, Len(filter)) = filter

\* if sourceFilter != "" && source != sourceFilter { continue }
SourceSelected(source, filter) ==
    ~(filter # EmptyString /\ source # filter)

NewPeerConfig(c, source, target) ==
    LET sourcePeer == c.Peers[source]
        peerPeer == c.Peers[target]
    IN  [SourceVpcId |-> sourcePeer.VpcId,
         SourceRegion |-> sourcePeer.Region,
         SourceRoleArn |-> sourcePeer.RoleArn,
         PeerVpcId |-> peerPeer.VpcId,
         PeerRegion |-> peerPeer.Region,
         PeerRoleArn |-> peerPeer.RoleArn,
         PeerVpcCidr |-> peerPeer.CidrBlock,
         Name |-> target,
         EnableDnsResolution |-> sourcePeer.DnsResolution,
         HasExtraPeerRouteTables |-> sourcePeer.HasAdditionalRoutes]

\* for source, targets := range cfg.PeeringMatrix: the Go runtime picks the order
MapOrders(m) ==
    {o \in [1..Cardinality(DOMAIN m) -> DOMAIN m] : Range(o) = DOMAIN m}

\* variant: a source or target without a peer entry is passed over and the
\* rest is expanded
RECURSIVE ConvertFromSkippingMissing(_, _, _, _)
ConvertFromSkippingMissing(c, filter, order, acc) ==
    IF order = <<>> THEN acc
    ELSE
        LET source == Head(order)
            targets == c.PeeringMatrix[source]
            Present(t) == t \in DOMAIN c.Peers
            present == SelectSeq(targets, Present)
        IN  IF ~SourceSelected(source, filter) \/ source \notin DOMAIN c.Peers
              THEN ConvertFromSkippingMissing(c, filter, Tail(order), acc)
            ELSE ConvertFromSkippingMissing(c, filter, Tail(order),
                     [acc EXCEPT
                        !.peerConfigs = @ \o [j \in 1..Len(present) |-> NewPeerConfig(c, source, present[j])],
                        !.origin = @ \o [j \in 1..Len(present) |-> <<source, j>>]])

RECURSIVE ConvertFrom(_, _, _, _)
ConvertFrom(c, filter, order, acc) ==
    IF order = <<>> THEN acc
    ELSE
        LET source == Head(order)
            targets == c.PeeringMatrix[source]
            missing == {j \in 1..Len(targets) : targets[j] \notin DOMAIN c.Peers}
        IN  IF ~SourceSelected(source, filter)
              THEN ConvertFrom(c, filter, Tail(order), acc)
            ELSE IF source \notin DOMAIN c.Peers
              THEN [acc EXCEPT !.fatal = Fatalf("missing source peer config for %q", source)]
            ELSE IF missing # {}
              THEN [acc EXCEPT !.fatal = Fatalf("missing peer config for %q", targets[Min(missing)])]
            ELSE ConvertFrom(c, filter, Tail(order),
                     [acc EXCEPT
                        !.peerConfigs = @ \o [j \in 1..Len(targets) |-> NewPeerConfig(c, source, targets[j])],
                        !.origin = @ \o [j \in 1..Len(targets) |-> <<source, j>>]])

ConvertToPeerConfigs(c, filter, order) ==
    ConvertFrom(c, filter, order, [peerConfigs |-> <<>>, origin |-> <<>>, fatal |-> NoFatal])

(***************************************************************************)
(* Declared constructs.  A name is the Sprintf format with its arguments;  *)
(* a token (peering.Id(), vpc.CidrBlock()) names the construct it reads.   *)
(***************************************************************************)
Sprintf(fmt, s, d) == [fmt |-> fmt, s |-> s, d |-> d]

NoName == Sprintf("", EmptyString, 0)

Id(name) == [ref |-> name, attr |-> "id"]

CidrBlock(name) == [ref |-> name, attr |-> "cidr_block"]

Literal(b) == [ref |-> NoName, attr |-> IF b THEN "true" ELSE "false"]

Construct(kind, name, edge, provider, dependsOn, attrs) ==
    [kind |-> kind, name |-> name, edge |-> edge, provider |-> provider,
     dependsOn |-> dependsOn, attrs |-> attrs]

\* helpers.go:128-136
CreateAwsProvider(edge, name, alias, region, arn) ==
    Construct("provider", name, edge, NoName, <<>>,
              [Region |-> region, Alias |-> alias, AssumeRole |-> arn])

\* helpers.go:142-147
CreateDataAwsVpc(edge, name, vpcId, provider) ==
    Construct("data_aws_vpc", name, edge, provider, <<>>, [Id |-> vpcId])

\* helpers.go:153-162
CreateMainRouteTable(edge, name, vpcId, provider) ==
    Construct("data_aws_route_table", name, edge, provider, <<>>,
              [VpcId |-> vpcId, SubnetId |-> "", ForEach |-> NoName,
               Filter |-> <<"association.main", "true">>])

\* part_003:895-911
CreateRoute(edge, name, routeTableID, destCidr, peeringID, provider, dependsOn) ==
    Construct("aws_route", name, edge, provider, dependsOn,
              [RouteTableId |-> routeTableID, DestinationCidrBlock |-> destCidr,
               VpcPeeringConnectionId |-> peeringID, ForEach |-> NoName])

\* part_003:856-879: one route-table lookup and one route, each with for_each
\* over the discovered subnet ids
CreateSubnetRoutes(edge, namePrefix, subnets, provider, destCidr, peeringID, dependsOn) ==
    LET rtName == Sprintf(namePrefix.fmt \o "RouteTable", namePrefix.s, namePrefix.d)
        routeName == Sprintf(namePrefix.fmt \o "Route", namePrefix.s, namePrefix.d)
    IN  << Construct("data_aws_route_table", rtName, edge, provider, <<>>,
                     [VpcId |-> EmptyString, SubnetId |-> "${each.value}", ForEach |-> subnets,
                      Filter |-> <<>>]),
           Construct("aws_route", routeName, edge, provider, dependsOn,
                     [RouteTableId |-> [ref |-> rtName, attr |-> "[each.key].id"],
                      DestinationCidrBlock |-> destCidr,
                      VpcPeeringConnectionId |-> peeringID, ForEach |-> subnets]) >>

\* part_003:935-965; subnets.Ids() is a token list and never nil
CreateFilteredSubnetRoutes(edge, namePrefix, subnetResourceName, vpcID, provider, tagFilterName, tagFilterValue, destCidr, peeringID, dependsOn) ==
    << Construct("data_aws_subnets", subnetResourceName, edge, provider, <<>>,
                 [Filter |-> << <<"vpc-id", vpcID>>, <<tagFilterName, tagFilterValue>> >>]) >>
    \o CreateSubnetRoutes(edge, namePrefix, subnetResourceName, provider, destCidr,
                          peeringID, dependsOn)

(***************************************************************************)
(* NewMyStack's loop body (main.go:37-208), one operator per section       *)
(***************************************************************************)
\* variant: the region is used as configured
RegionAsConfigured(region) == region

\* main.go:39-46
RegionOrDefault(region) == IF region = "" THEN DefaultRegion ELSE region

SourceRegionOf(peer) == RegionOrDefault(peer.SourceRegion)

PeerRegionOf(peer) == RegionOrDefault(peer.PeerRegion)

\* variant: one name for the source provider of every edge
SourceProviderNameShared(idx) == Sprintf("SourceAWS%d", EmptyString, 0)

SourceProviderName(idx) == Sprintf("SourceAWS%d", EmptyString, idx)

PeerProviderName(idx) == Sprintf("PeerAWS%d", EmptyString, idx)

SourceVpcName(idx) == Sprintf("SourceVpcData%d", EmptyString, idx)

PeerVpcName(idx) == Sprintf("PeerVpcData%d", EmptyString, idx)

SourceMainRtName(idx) == Sprintf("SourceMainRouteTable%d", EmptyString, idx)

PeerMainRtName(idx) == Sprintf("PeerMainRouteTable%d", EmptyString, idx)

PeeringName(idx) == Sprintf("VpcPeering%d", EmptyString, idx)

AccepterName(idx) == Sprintf("VpcPeeringAccepter%d", EmptyString, idx)

OptionsName(idx) == Sprintf("VpcPeeringOptions%d", EmptyString, idx)

\* main.go:77-80
DisplayName(peer) == IF peer.Name = EmptyString THEN peer.PeerVpcId ELSE peer.Name

AutoAcceptAlways(sourceRegion, peerRegion) == TRUE

\* main.go:83
AutoAccept(sourceRegion, peerRegion) == sourceRegion = peerRegion

\* variant: the regions compared as configured, before defaulting
IsAutoAcceptRawRegions(peer) == AutoAccept(peer.SourceRegion, peer.PeerRegion)

IsAutoAccept(peer) == AutoAccept(SourceRegionOf(peer), PeerRegionOf(peer))

\* variant: the peer region is set on every link
LinkPeerRegionAlways(peer) == {PeerRegionOf(peer)}

\* main.go:98-101: PeerRegion is set only when the regions differ
LinkPeerRegion(peer) ==
    IF SourceRegionOf(peer) # PeerRegionOf(peer) THEN {PeerRegionOf(peer)} ELSE {}

\* main.go:49-54
SetupProviders(idx, peer) ==
    << CreateAwsProvider(idx, SourceProviderName(idx), Sprintf("source%d", EmptyString, idx),
                         SourceRegionOf(peer), peer.SourceRoleArn),
       CreateAwsProvider(idx, PeerProviderName(idx), Sprintf("peer%d", EmptyString, idx),
                         PeerRegionOf(peer), peer.PeerRoleArn) >>

\* main.go:57-60
SetupVpcData(idx, peer) ==
    << CreateDataAwsVpc(idx, SourceVpcName(idx), peer.SourceVpcId, SourceProviderName(idx)),
       CreateDataAwsVpc(idx, PeerVpcName(idx), peer.PeerVpcId, PeerProviderName(idx)) >>

\* main.go:63-70
SetupMainRouteTables(idx, peer) ==
    << CreateMainRouteTable(idx, SourceMainRtName(idx), peer.SourceVpcId, SourceProviderName(idx)),
       CreateMainRouteTable(idx, PeerMainRtName(idx), peer.PeerVpcId, PeerProviderName(idx)) >>

\* variant: the owner id is read from the source's role
PeeringConfigOwnerFromSource(idx, peer) ==
    Construct("aws_vpc_peering_connection", PeeringName(idx), idx, SourceProviderName(idx), <<>>,
              [VpcId |-> peer.SourceVpcId,
               PeerVpcId |-> peer.PeerVpcId,
               PeerOwnerId |-> GetAccountIDFromRoleArn(peer.SourceRoleArn),
               AutoAccept |-> IsAutoAccept(peer),
               PeerRegion |-> LinkPeerRegion(peer),
               TagName |-> Sprintf("Connection to %s", DisplayName(peer), 0)])

\* main.go:76-96: the link's configuration
PeeringConfig(idx, peer) ==
    Construct("aws_vpc_peering_connection", PeeringName(idx), idx, SourceProviderName(idx), <<>>,
              [VpcId |-> peer.SourceVpcId,
               PeerVpcId |-> peer.PeerVpcId,
               PeerOwnerId |-> GetAccountIDFromRoleArn(peer.PeerRoleArn),
               AutoAccept |-> IsAutoAccept(peer),
               PeerRegion |-> LinkPeerRegion(peer),
               TagName |-> Sprintf("Connection to %s", DisplayName(peer), 0)])

PeeringConnectionFirstEdgeOnly(idx, peer) ==
    IF idx = 0 THEN <<PeeringConfig(idx, peer)>> ELSE <<>>

\* main.go:104-109: one link per iteration
PeeringConnection(idx, peer) == <<PeeringConfig(idx, peer)>>

\* variant: the accepter also waits for the options
AccepterAwaitingOptions(idx, peer, provider) ==
    Construct("aws_vpc_peering_connection_accepter", AccepterName(idx), idx,
              provider, <<PeeringName(idx), OptionsName(idx)>>,
              [vpc_peering_connection_id |-> Id(PeeringName(idx)),
               auto_accept |-> TRUE,
               TagName |-> Sprintf("Connection to %s", DisplayName(peer), 0)])

\* main.go:115-128: the accepter, under the given provider
AccepterResource(idx, peer, provider) ==
    Construct("aws_vpc_peering_connection_accepter", AccepterName(idx), idx,
              provider, <<PeeringName(idx)>>,
              [vpc_peering_connection_id |-> Id(PeeringName(idx)),
               auto_accept |-> TRUE,
               TagName |-> Sprintf("Connection to %s", DisplayName(peer), 0)])

AccepterUnderSource(idx, peer) ==
    IF ~IsAutoAccept(peer)
      THEN <<AccepterResource(idx, peer, SourceProviderName(idx))>>
      ELSE <<>>

\* main.go:112-129
Accepter(idx, peer) ==
    IF ~IsAutoAccept(peer)
      THEN <<AccepterResource(idx, peer, PeerProviderName(idx))>>
      ELSE <<>>

\* the names of the accepter, if one was declared (accepter != nil)
AccepterNames(idx, peer) ==
    LET accepter == Accepter(idx, peer)
    IN  [k \in 1..Len(accepter) |-> accepter[k].name]

\* variant: the options depend on the accepter only
PeeringOptionsOnAccepterOnly(idx, peer) ==
    << Construct("aws_vpc_peering_connection_options", OptionsName(idx), idx,
                 SourceProviderName(idx), AccepterNames(idx, peer),
                 [vpc_peering_connection_id |-> Id(PeeringName(idx)),
                  allow_remote_vpc_dns_resolution |-> peer.EnableDnsResolution]) >>

\* main.go:131-145
PeeringOptions(idx, peer) ==
    << Construct("aws_vpc_peering_connection_options", OptionsName(idx), idx,
                 SourceProviderName(idx), <<PeeringName(idx)>> \o AccepterNames(idx, peer),
                 [vpc_peering_connection_id |-> Id(PeeringName(idx)),
                  allow_remote_vpc_dns_resolution |-> peer.EnableDnsResolution]) >>

\* variant: the routes wait for the link only
RouteDependsOnLinkOnly(idx, peer) == <<PeeringName(idx)>>

\* main.go:148-152
RouteDependsOn(idx, peer) ==
    <<PeeringName(idx)>> \o (IF ~IsAutoAccept(peer) THEN AccepterNames(idx, peer) ELSE <<>>)

SourceMainRouteOnly(idx, peer) ==
    << CreateRoute(idx, Sprintf("SourceToPeerMainRoute%d", EmptyString, idx),
                   Id(SourceMainRtName(idx)), CidrBlock(PeerVpcName(idx)), Id(PeeringName(idx)),
                   SourceProviderName(idx), RouteDependsOn(idx, peer)) >>

\* main.go:155-174: the reverse route is given the peering id as its
\* destination and the source provider
MainRoutes(idx, peer) ==
    << CreateRoute(idx, Sprintf("SourceToPeerMainRoute%d", EmptyString, idx),
                   Id(SourceMainRtName(idx)), CidrBlock(PeerVpcName(idx)), Id(PeeringName(idx)),
                   SourceProviderName(idx), RouteDependsOn(idx, peer)),
       CreateRoute(idx, Sprintf("PeerToPeerMainRoute%d", EmptyString, idx),
                   Id(PeerMainRtName(idx)), Id(PeeringName(idx)), Id(PeeringName(idx)),
                   SourceProviderName(idx), RouteDependsOn(idx, peer)) >>

\* main.go:178-191
SourceSubnetRoutes(idx, peer) ==
    CreateFilteredSubnetRoutes(idx,
        Sprintf("SourceSubnetToPeerRoute_%s_eachkey_%d", DisplayName(peer), idx),
        Sprintf("SourceSubnets%d", EmptyString, idx),
        peer.SourceVpcId, SourceProviderName(idx), "tag:cdktf-source-main-rt", "",
        CidrBlock(PeerVpcName(idx)), Id(PeeringName(idx)), RouteDependsOn(idx, peer))

\* variant: the peer side's subnet routes evaluated under the source provider
PeerSubnetRoutesUnderSource(idx, peer) ==
    CreateFilteredSubnetRoutes(idx,
        Sprintf("PeerSubnetToSourceRoute_%s_eachkey_%d", DisplayName(peer), idx),
        Sprintf("PeerSubnets%d", EmptyString, idx),
        peer.PeerVpcId, SourceProviderName(idx), "tag:cdktf-peer-main-rt", "",
        CidrBlock(SourceVpcName(idx)), Id(PeeringName(idx)), RouteDependsOn(idx, peer))

\* main.go:193-206
PeerSubnetRoutes(idx, peer) ==
    CreateFilteredSubnetRoutes(idx,
        Sprintf("PeerSubnetToSourceRoute_%s_eachkey_%d", DisplayName(peer), idx),
        Sprintf("PeerSubnets%d", EmptyString, idx),
        peer.PeerVpcId, PeerProviderName(idx), "tag:cdktf-peer-main-rt", "",
        CidrBlock(SourceVpcName(idx)), Id(PeeringName(idx)), RouteDependsOn(idx, peer))

\* variant: the subnet routes of both sides whatever the flag says
SubnetRoutesIgnoringFlag(idx, peer) ==
    SourceSubnetRoutes(idx, peer) \o PeerSubnetRoutes(idx, peer)

\* main.go:176-207
SubnetRoutes(idx, peer) ==
    IF peer.HasExtraPeerRouteTables
    THEN SourceSubnetRoutes(idx, peer) \o PeerSubnetRoutes(idx, peer)
    ELSE <<>>

\* variant: the same constructs, the main routes declared before the link
EdgeConstructsRoutesFirst(idx, peer) ==
    SetupProviders(idx, peer) \o SetupVpcData(idx, peer) \o SetupMainRouteTables(idx, peer)
    \o MainRoutes(idx, peer) \o PeeringConnection(idx, peer) \o Accepter(idx, peer)
    \o PeeringOptions(idx, peer) \o SubnetRoutes(idx, peer)

\* everything one iteration declares, in the order of the code
EdgeConstructs(idx, peer) ==
    SetupProviders(idx, peer) \o SetupVpcData(idx, peer) \o SetupMainRouteTables(idx, peer)
    \o PeeringConnection(idx, peer) \o Accepter(idx, peer) \o PeeringOptions(idx, peer)
    \o MainRoutes(idx, peer) \o SubnetRoutes(idx, peer)

\* variant: the outputs without the DNS resolution setting
AddOutputsWithoutDnsFlag(peers, vpcs, sourceTables, peerTables) ==
    LET OutputsOf(k) ==
            << Construct("output", Sprintf("VpcPeeringConnectionId_%d", EmptyString, k), k, NoName, <<>>,
                         [Value |-> Id(vpcs[k + 1])]),
               Construct("output", Sprintf("SourceMainRouteTableId_%d", EmptyString, k), k, NoName, <<>>,
                         [Value |-> Id(sourceTables[k + 1])]),
               Construct("output", Sprintf("PeerMainRouteTableId_%d", EmptyString, k), k, NoName, <<>>,
                         [Value |-> Id(peerTables[k + 1])]) >>
        Flat[n \in 0..Len(peers)] ==
            IF n = 0 THEN <<>> ELSE Flat[n - 1] \o OutputsOf(n - 1)
    IN  Flat[Len(peers)]

\* part_003:812-840, the AddOutputs that main.go:210 calls with five arguments
AddOutputs(peers, vpcs, sourceTables, peerTables) ==
    LET OutputsOf(k) ==
            << Construct("output", Sprintf("VpcPeeringConnectionId_%d", EmptyString, k), k, NoName, <<>>,
                         [Value |-> Id(vpcs[k + 1])]),
               Construct("output", Sprintf("SourceMainRouteTableId_%d", EmptyString, k), k, NoName, <<>>,
                         [Value |-> Id(sourceTables[k + 1])]),
               Construct("output", Sprintf("PeerMainRouteTableId_%d", EmptyString, k), k, NoName, <<>>,
                         [Value |-> Id(peerTables[k + 1])]),
               Construct("output", Sprintf("DnsResolutionEnabled_%d", EmptyString, k), k, NoName, <<>>,
                         [Value |-> Literal(peers[k + 1].EnableDnsResolution)]) >>
        Flat[n \in 0..Len(peers)] ==
            IF n = 0 THEN <<>> ELSE Flat[n - 1] \o OutputsOf(n - 1)
    IN  Flat[Len(peers)]

\* main.go:27-31
SourceIdVariable ==
    Construct("variable", Sprintf("source_id", EmptyString, 0), -1, NoName, <<>>,
              [Default |-> DefaultSource])

(***************************************************************************)
(* The process                                                             *)
(***************************************************************************)
Selections == {EmptyString, NameA, NameAB}

Idle ==
    /\ via = "none"
    /\ sourceFilter = EmptyString
    /\ peerConfigs = <<>>
    /\ origin = <<>>
    /\ i = 0
    /\ resources = <<>>
    /\ vpcPeeringConnections = <<>>
    /\ sourceMainRouteTables = <<>>
    /\ peerMainRouteTables = <<>>
    /\ fatal = NoFatal
    /\ run = "first"
    /\ firstPeerConfigs = <<>>
    /\ firstResources = <<>>

Init ==
    /\ cfg \in LoadConfig
    /\ selection \in Selections
    /\ pc = "start"
    /\ Idle
    /\ roleArn = EmptyString
    /\ accountID = EmptyString

\* main.go:223-230: an unset CDKTF_SOURCE becomes "default-source"
Main ==
    /\ pc = "start"
    /\ via' = "main"
    /\ sourceFilter' = IF selection = EmptyString THEN DefaultSource ELSE selection
    /\ pc' = "convert"
    /\ UNCHANGED <<cfg, selection, peerConfigs, origin, i, resources, vpcPeeringConnections,
                   sourceMainRouteTables, peerMainRouteTables, fatal, run, firstPeerConfigs,
                   firstResources, roleArn, accountID>>

\* main_test.go:257: a caller passes the empty filter as it is (a caller's
\* non-empty filter reaches ConvertToPeerConfigs as main's does)
DirectCall ==
    /\ pc = "start"
    /\ selection = EmptyString
    /\ via' = "direct"
    /\ sourceFilter' = selection
    /\ pc' = "convert"
    /\ UNCHANGED <<cfg, selection, peerConfigs, origin, i, resources, vpcPeeringConnections,
                   sourceMainRouteTables, peerMainRouteTables, fatal, run, firstPeerConfigs,
                   firstResources, roleArn, accountID>>

\* helpers.go:55-93; log.Fatalf ends the process
Convert ==
    /\ pc = "convert"
    /\ \E order \in MapOrders(cfg.PeeringMatrix) :
         LET r == ConvertToPeerConfigs(cfg, sourceFilter, order)
         IN  IF r.fatal # NoFatal
               THEN /\ fatal' = r.fatal
                    /\ pc' = "fatal"
                    /\ UNCHANGED <<peerConfigs, origin>>
               ELSE /\ peerConfigs' = r.peerConfigs
                    /\ origin' = r.origin
                    /\ pc' = "converted"
                    /\ UNCHANGED fatal
    /\ UNCHANGED <<cfg, selection, via, sourceFilter, i, resources, vpcPeeringConnections,
                   sourceMainRouteTables, peerMainRouteTables, run, firstPeerConfigs,
                   firstResources, roleArn, accountID>>

\* variant: an empty expansion is taken as a success and the stack is built
ZeroPeersAccepted ==
    /\ pc = "converted"
    /\ via = "main"
    /\ Len(peerConfigs) = 0
    /\ resources' = <<SourceIdVariable>>
    /\ pc' = "build"
    /\ UNCHANGED <<cfg, selection, via, sourceFilter, peerConfigs, origin, i,
                   vpcPeeringConnections, sourceMainRouteTables, peerMainRouteTables, fatal, run,
                   firstPeerConfigs, firstResources, roleArn, accountID>>

\* main.go:232-234
NoPeersMatched ==
    /\ pc = "converted"
    /\ via = "main"
    /\ Len(peerConfigs) = 0
    /\ fatal' = Fatalf("no peers matched for source: %s", sourceFilter)
    /\ pc' = "fatal"
    /\ UNCHANGED <<cfg, selection, via, sourceFilter, peerConfigs, origin, i, resources,
                   vpcPeeringConnections, sourceMainRouteTables, peerMainRouteTables, run,
                   firstPeerConfigs, firstResources, roleArn, accountID>>

\* main.go:236-237, 24-35: the stack, its source_id variable, the empty accumulators
NewMyStackBegin ==
    /\ pc = "converted"
    /\ via = "main" => Len(peerConfigs) # 0
    /\ resources' = <<SourceIdVariable>>
    /\ i' = 0
    /\ vpcPeeringConnections' = <<>>
    /\ sourceMainRouteTables' = <<>>
    /\ peerMainRouteTables' = <<>>
    /\ pc' = "build"
    /\ UNCHANGED <<cfg, selection, via, sourceFilter, peerConfigs, origin, fatal, run,
                   firstPeerConfigs, firstResources, roleArn, accountID>>

\* main.go:37-208: one iteration of the loop over peers
NewMyStackEdge ==
    /\ pc = "build"
    /\ i < Len(peerConfigs)
    /\ resources' = resources \o EdgeConstructs(i, peerConfigs[i + 1])
    /\ vpcPeeringConnections' = Append(vpcPeeringConnections, PeeringName(i))
    /\ sourceMainRouteTables' = Append(sourceMainRouteTables, SourceMainRtName(i))
    /\ peerMainRouteTables' = Append(peerMainRouteTables, PeerMainRtName(i))
    /\ i' = i + 1
    /\ UNCHANGED <<cfg, selection, pc, via, sourceFilter, peerConfigs, origin, fatal, run,
                   firstPeerConfigs, firstResources, roleArn, accountID>>

\* main.go:210-211
NewMyStackEnd ==
    /\ pc = "build"
    /\ i = Len(peerConfigs)
    /\ resources' = resources \o AddOutputs(peerConfigs, vpcPeeringConnections,
                                            sourceMainRouteTables, peerMainRouteTables)
    /\ pc' = "done"
    /\ UNCHANGED <<cfg, selection, via, sourceFilter, peerConfigs, origin, i,
                   vpcPeeringConnections, sourceMainRouteTables, peerMainRouteTables, fatal, run,
                   firstPeerConfigs, firstResources, roleArn, accountID>>

Next ==
    \/ Main
    \/ DirectCall
    \/ Convert
    \/ NoPeersMatched
    \/ NewMyStackBegin
    \/ NewMyStackEdge
    \/ NewMyStackEnd

Spec == Init /\ [][Next]_vars

(***************************************************************************)
(* The same configuration and filter, expanded and built a second time     *)
(***************************************************************************)
Rerun ==
    /\ pc = "done"
    /\ run = "first"
    /\ run' = "second"
    /\ firstPeerConfigs' = peerConfigs
    /\ firstResources' = resources
    /\ peerConfigs' = <<>>
    /\ origin' = <<>>
    /\ i' = 0
    /\ resources' = <<>>
    /\ vpcPeeringConnections' = <<>>
    /\ sourceMainRouteTables' = <<>>
    /\ peerMainRouteTables' = <<>>
    /\ pc' = "convert"
    /\ UNCHANGED <<cfg, selection, via, sourceFilter, fatal, roleArn, accountID>>

NextTwice ==
    \/ Next
    \/ Rerun

SpecTwice == Init /\ [][NextTwice]_vars

(***************************************************************************)
(* GetAccountIDFromRoleArn on its own                                      *)
(***************************************************************************)
ArnAlphabet == {":", "1", "r"}

ArnInputs ==
    {ArnTestValid, ArnValid, ArnNoAccount, ArnShort, ArnFoo, ArnBar}
    \cup UNION {[1..n -> ArnAlphabet] : n \in 0..MaxArnLen}

InitArn ==
    /\ cfg = [Peers |-> <<>>, PeeringMatrix |-> <<>>, matrixKeys |-> <<>>]
    /\ selection = EmptyString
    /\ pc = "arn"
    /\ Idle
    /\ roleArn \in ArnInputs
    /\ accountID = EmptyString

ExtractAccountID ==
    /\ pc = "arn"
    /\ accountID' = GetAccountIDFromRoleArn(roleArn)
    /\ pc' = "arn-done"
    /\ UNCHANGED <<cfg, selection, via, sourceFilter, peerConfigs, origin, i, resources,
                   vpcPeeringConnections, sourceMainRouteTables, peerMainRouteTables, fatal,
                   run, firstPeerConfigs, firstResources, roleArn>>

NextArn == ExtractAccountID

SpecArn == InitArn /\ [][NextArn]_vars

(***************************************************************************)
(* Reading the declared stack                                              *)
(***************************************************************************)
Declared(kind) == {k \in 1..Len(resources) : resources[k].kind = kind}

OfEdge(kind, e) == {k \in Declared(kind) : resources[k].edge = e}

ProcessedEdges == IF pc \in {"build", "done"} THEN 0..(i - 1) ELSE {}

EdgeOf(e) == peerConfigs[e + 1]

Links(e) == OfEdge("aws_vpc_peering_connection", e)

Accepters(e) == OfEdge("aws_vpc_peering_connection_accepter", e)

OptionsOf(e) == OfEdge("aws_vpc_peering_connection_options", e)

MainRoutesOf(e) == {k \in OfEdge("aws_route", e) : resources[k].attrs.ForEach = NoName}

SubnetRoutesOf(e) == {k \in OfEdge("aws_route", e) : resources[k].attrs.ForEach # NoName}

SubnetLookupsOf(e) ==
    OfEdge("data_aws_subnets", e)
    \cup {k \in OfEdge("data_aws_route_table", e) : resources[k].attrs.ForEach # NoName}

\* the region and role of the credential context declared under a name
ContextsNamed(name) == {k \in Declared("provider") : resources[k].name = name}

RegionOfContext(name) == resources[CHOOSE k \in ContextsNamed(name) : TRUE].attrs.Region

\* name is the credential context of edge e's source / peer endpoint
IsSourceContext(name, e) ==
    /\ ContextsNamed(name) # {}
    /\ \A k \in ContextsNamed(name) :
         /\ resources[k].edge = e
         /\ resources[k].attrs.Alias = Sprintf("source%d", EmptyString, e)
         /\ resources[k].attrs.AssumeRole = EdgeOf(e).SourceRoleArn

IsPeerContext(name, e) ==
    /\ ContextsNamed(name) # {}
    /\ \A k \in ContextsNamed(name) :
         /\ resources[k].edge = e
         /\ resources[k].attrs.Alias = Sprintf("peer%d", EmptyString, e)
         /\ resources[k].attrs.AssumeRole = EdgeOf(e).PeerRoleArn

LinkAutoAccepts(e) == \E k \in Links(e) : resources[k].attrs.AutoAccept

(***************************************************************************)
(* C1: once the stack is built, the number of declared peering links is    *)
(* the number of PeerConfigs ConvertToPeerConfigs returned, and while it   *)
(* is being built every processed edge has exactly one link and no other   *)
(* link exists.                                                            *)
(***************************************************************************)
C1_OneLinkPerEdge ==
    pc \in {"build", "done"} =>
        /\ Cardinality(Declared("aws_vpc_peering_connection")) = i
        /\ \A e \in ProcessedEdges : Cardinality(Links(e)) = 1
        /\ pc = "done" => Cardinality(Declared("aws_vpc_peering_connection")) = Len(peerConfigs)

C1_Witness ==
    /\ pc = "done"
    /\ Len(peerConfigs) = 3
    /\ DOMAIN cfg.PeeringMatrix = {NameA, NameAB}
    /\ Cardinality(Declared("aws_vpc_peering_connection")) = 3

(***************************************************************************)
(* C2: for every processed edge the link's auto-accept flag is true        *)
(* exactly when the region its source credential context is bound to       *)
(* equals the region its peer credential context is bound to; where both   *)
(* endpoints configure a region, exactly when the configured regions are   *)
(* equal.                                                                  *)
(***************************************************************************)
C2_AutoAcceptIffSameRegion ==
    \A e \in ProcessedEdges :
        \A k \in Links(e) :
            /\ resources[k].attrs.AutoAccept <=>
                 (RegionOfContext(SourceProviderName(e)) = RegionOfContext(PeerProviderName(e)))
            /\ (EdgeOf(e).SourceRegion # "" /\ EdgeOf(e).PeerRegion # "") =>
                 (resources[k].attrs.AutoAccept <=> (EdgeOf(e).SourceRegion = EdgeOf(e).PeerRegion))

C2_Witness ==
    /\ pc = "done"
    /\ \E e1, e2 \in ProcessedEdges :
         /\ LinkAutoAccepts(e1)
         /\ EdgeOf(e1).SourceRegion = "us-east-1"
         /\ EdgeOf(e1).PeerRegion = "us-east-1"
         /\ ~LinkAutoAccepts(e2)
         /\ Links(e2) # {}
         /\ EdgeOf(e2).SourceRegion = "us-west-2"
         /\ EdgeOf(e2).PeerRegion = "us-east-1"

(***************************************************************************)
(* C3: for every processed edge, when the link does not auto-accept there  *)
(* is exactly one accepter, it is evaluated under the peer's credential    *)
(* context, it depends on the edge's link, and the edge's options          *)
(* construct depends on it; when the link auto-accepts there is no         *)
(* accepter for the edge.                                                  *)
(***************************************************************************)
C3_AccepterIffNotAutoAccept ==
    \A e \in ProcessedEdges :
        IF LinkAutoAccepts(e)
          THEN Accepters(e) = {}
          ELSE /\ Cardinality(Accepters(e)) = 1
               /\ \A a \in Accepters(e) :
                    /\ IsPeerContext(resources[a].provider, e)
                    /\ \E l \in Links(e) : resources[l].name \in Range(resources[a].dependsOn)
                    /\ \A o \in OptionsOf(e) : resources[a].name \in Range(resources[o].dependsOn)
                    /\ OptionsOf(e) # {}

C3_Witness ==
    /\ pc = "done"
    /\ \E e1, e2 \in ProcessedEdges :
         /\ ~LinkAutoAccepts(e1)
         /\ Cardinality(Accepters(e1)) = 1
         /\ LinkAutoAccepts(e2)
         /\ Accepters(e2) = {}

(***************************************************************************)
(* C4: every processed edge has exactly two main routes, whatever its      *)
(* flags and its auto-accept mode: one in the main route table looked up   *)
(* for the source VPC and one in the main route table looked up for the    *)
(* peer VPC.                                                               *)
(***************************************************************************)
IsMainTableOf(token, e, vpcId) ==
    /\ token.attr = "id"
    /\ \E t \in OfEdge("data_aws_route_table", e) :
         /\ resources[t].name = token.ref
         /\ resources[t].attrs.Filter = <<"association.main", "true">>
         /\ resources[t].attrs.VpcId = vpcId

SourceMainRoutesOf(e) ==
    {k \in MainRoutesOf(e) :
        /\ IsMainTableOf(resources[k].attrs.RouteTableId, e, EdgeOf(e).SourceVpcId)
        /\ resources[k].attrs.RouteTableId.ref = SourceMainRtName(e)}

PeerMainRoutesOf(e) ==
    {k \in MainRoutesOf(e) :
        /\ IsMainTableOf(resources[k].attrs.RouteTableId, e, EdgeOf(e).PeerVpcId)
        /\ resources[k].attrs.RouteTableId.ref = PeerMainRtName(e)}

C4_TwoMainRoutes ==
    \A e \in ProcessedEdges :
        /\ Cardinality(MainRoutesOf(e)) = 2
        /\ Cardinality(SourceMainRoutesOf(e)) = 1
        /\ Cardinality(PeerMainRoutesOf(e)) = 1

C4_Witness ==
    /\ pc = "done"
    /\ \E e1, e2 \in ProcessedEdges :
         /\ EdgeOf(e1).HasExtraPeerRouteTables
         /\ ~LinkAutoAccepts(e1)
         /\ Cardinality(MainRoutesOf(e1)) = 2
         /\ ~EdgeOf(e2).HasExtraPeerRouteTables
         /\ LinkAutoAccepts(e2)
         /\ Cardinality(MainRoutesOf(e2)) = 2

(***************************************************************************)
(* C5: for every processed edge, the route in the source main table goes   *)
(* to the peer VPC lookup's address block under the source context, the    *)
(* route in the peer main table goes to the source VPC lookup's address    *)
(* block under the peer context, and both go through the edge's link.      *)
(***************************************************************************)
C5_MainRoutesCrossed ==
    \A e \in ProcessedEdges :
        /\ \A k \in SourceMainRoutesOf(e) :
             /\ resources[k].attrs.DestinationCidrBlock = CidrBlock(PeerVpcName(e))
             /\ resources[k].attrs.VpcPeeringConnectionId = Id(PeeringName(e))
             /\ IsSourceContext(resources[k].provider, e)
        /\ \A k \in PeerMainRoutesOf(e) :
             /\ resources[k].attrs.DestinationCidrBlock = CidrBlock(SourceVpcName(e))
             /\ resources[k].attrs.VpcPeeringConnectionId = Id(PeeringName(e))
             /\ IsPeerContext(resources[k].provider, e)

(***************************************************************************)
(* C6: subnet lookups and subnet routes exist for a processed edge only    *)
(* when its HasExtraPeerRouteTables flag is true; an edge whose flag is    *)
(* false has none of either.                                               *)
(***************************************************************************)
C6_SubnetRoutesOnlyWithFlag ==
    \A e \in ProcessedEdges :
        ~EdgeOf(e).HasExtraPeerRouteTables =>
            /\ SubnetLookupsOf(e) = {}
            /\ SubnetRoutesOf(e) = {}

C6_Witness ==
    /\ pc = "done"
    /\ \E e1, e2 \in ProcessedEdges :
         /\ EdgeOf(e1).HasExtraPeerRouteTables
         /\ Cardinality(SubnetRoutesOf(e1)) = 2
         /\ Cardinality(SubnetLookupsOf(e1)) = 4
         /\ ~EdgeOf(e2).HasExtraPeerRouteTables
         /\ SubnetRoutesOf(e2) = {}
         /\ SubnetLookupsOf(e2) = {}

(***************************************************************************)
(* C7: GetAccountIDFromRoleArn returns the account segment of a well-      *)
(* formed role reference (arn:aws:iam::<digits>:...) and the empty string  *)
(* for every other input, among them "", "arn:aws:iam:123456789012" and    *)
(* "arn:aws:iam::role/MyRole".                                             *)
(***************************************************************************)
WellFormedRoleArn(arn) == GetAccountIDFromRoleArnRegexp(arn) # EmptyString

C7_AccountIdOrEmpty ==
    pc = "arn-done" =>
        IF WellFormedRoleArn(roleArn)
          THEN accountID = DigitsFrom(roleArn, Len(ArnPrefix) + 1)
          ELSE accountID = EmptyString

(***************************************************************************)
(* C8: expanding and building the same configuration with the same filter  *)
(* a second time yields the same sequence of PeerConfigs and the same      *)
(* construct names bound to the same edges as the first time.              *)
(***************************************************************************)
NameBinding(constructs, peers) ==
    { <<constructs[k].name, peers[constructs[k].edge + 1]>> :
        k \in {n \in 1..Len(constructs) : constructs[n].edge >= 0} }

C8_SecondRunIdentical ==
    (run = "second" /\ pc = "done") =>
        /\ peerConfigs = firstPeerConfigs
        /\ NameBinding(resources, peerConfigs) = NameBinding(firstResources, firstPeerConfigs)

(***************************************************************************)
(* C9: the PeerConfigs come in the order in which the configuration        *)
(* defines the matrix keys and, within one key, in the order of its        *)
(* target list.                                                            *)
(***************************************************************************)
RECURSIVE OriginInOrder(_, _, _)
OriginInOrder(c, filter, keys) ==
    IF keys = <<>> THEN <<>>
    ELSE (IF filter = EmptyString \/ Head(keys) = filter
            THEN [j \in 1..Len(c.PeeringMatrix[Head(keys)]) |-> <<Head(keys), j>>]
            ELSE <<>>)
         \o OriginInOrder(c, filter, Tail(keys))

C9_DefinitionOrder ==
    pc \in {"converted", "build", "done"} =>
        origin = OriginInOrder(cfg, sourceFilter, cfg.matrixKeys)

(***************************************************************************)
(* C10: with a non-empty filter ConvertToPeerConfigs expands exactly the   *)
(* matrix entries whose key is equal to the filter (a key the filter is    *)
(* only a prefix of is not expanded); with an empty filter it expands      *)
(* every entry.  An expanded entry yields one PeerConfig per target.       *)
(***************************************************************************)
ExpandedFrom(source) == {k \in 1..Len(origin) : origin[k][1] = source}

C10_ExactFilter ==
    pc = "converted" =>
        \A source \in DOMAIN cfg.PeeringMatrix :
            Cardinality(ExpandedFrom(source)) =
                IF sourceFilter = EmptyString \/ source = sourceFilter
                  THEN Len(cfg.PeeringMatrix[source])
                  ELSE 0

C10_Witness ==
    /\ pc = "converted"
    /\ sourceFilter = NameA
    /\ DOMAIN cfg.PeeringMatrix = {NameA, NameAB}
    /\ Len(cfg.PeeringMatrix[NameAB]) = 1
    /\ Cardinality(ExpandedFrom(NameA)) = 2
    /\ ExpandedFrom(NameAB) = {}

(***************************************************************************)
(* C11: when main runs with CDKTF_SOURCE unset or empty, every key of the  *)
(* peering matrix is expanded (one PeerConfig per target) and the process  *)
(* does not end for want of a matching source while the matrix names       *)
(* targets.                                                                *)
(***************************************************************************)
C11_UnsetExpandsAll ==
    (via = "main" /\ selection = EmptyString) =>
        /\ pc \in {"converted", "build", "done"} =>
             \A source \in DOMAIN cfg.PeeringMatrix :
                 Cardinality(ExpandedFrom(source)) = Len(cfg.PeeringMatrix[source])
        /\ (pc = "fatal" /\ fatal.msg = "no peers matched for source: %s") =>
             \A source \in DOMAIN cfg.PeeringMatrix : cfg.PeeringMatrix[source] = <<>>

(***************************************************************************)
(* C12: when main's expansion returns no PeerConfig, the next step ends    *)
(* the process with the fatal "no peers matched" naming the filter, and    *)
(* nothing is declared on any stack.                                       *)
(***************************************************************************)
C12_ZeroEdgesFatal ==
    [][(pc = "converted" /\ via = "main" /\ Len(peerConfigs) = 0) =>
          /\ pc' = "fatal"
          /\ fatal' = Fatalf("no peers matched for source: %s", sourceFilter)
          /\ resources' = <<>>]_vars

C12_Witness ==
    /\ pc = "fatal"
    /\ via = "main"
    /\ sourceFilter = NameA
    /\ NameA \in DOMAIN cfg.PeeringMatrix
    /\ cfg.PeeringMatrix[NameA] = <<>>
    /\ fatal = Fatalf("no peers matched for source: %s", NameA)
    /\ resources = <<>>

(***************************************************************************)
(* C13: a configuration whose peering matrix names, as key or as target,   *)
(* a peer that the peers map does not hold ends in a fatal error naming    *)
(* such a peer, whatever the filter.                                       *)
(***************************************************************************)
DanglingNames(c) ==
    {source \in DOMAIN c.PeeringMatrix : source \notin DOMAIN c.Peers}
    \cup {target \in UNION {Range(c.PeeringMatrix[source]) : source \in DOMAIN c.PeeringMatrix} :
            target \notin DOMAIN c.Peers}

C13_DanglingRejected ==
    (DanglingNames(cfg) # {} /\ pc \notin {"start", "convert"}) =>
        /\ pc = "fatal"
        /\ fatal.msg \in {"missing source peer config for %q", "missing peer config for %q"}
        /\ fatal.arg \in DanglingNames(cfg)

(***************************************************************************)
(* The matrix entry a PeerConfig came from                                 *)
(***************************************************************************)
SourceNameOf(e) == origin[e + 1][1]

TargetNameOf(e) == cfg.PeeringMatrix[origin[e + 1][1]][origin[e + 1][2]]

(***************************************************************************)
(* C14: for every processed edge the PeerConfig's EnableDnsResolution,     *)
(* which the options construct carries as the requester's                  *)
(* allow_remote_vpc_dns_resolution, is the dns_resolution flag of the      *)
(* target peer's entry.                                                    *)
(***************************************************************************)
C14_DnsFlagFromTarget ==
    \A e \in ProcessedEdges :
        /\ EdgeOf(e).EnableDnsResolution = cfg.Peers[TargetNameOf(e)].DnsResolution
        /\ \A o \in OptionsOf(e) :
             resources[o].attrs.allow_remote_vpc_dns_resolution
                = cfg.Peers[TargetNameOf(e)].DnsResolution

(***************************************************************************)
(* C15: for every processed edge the PeerConfig's HasExtraPeerRouteTables, *)
(* on which alone the subnet routes depend, is the has_additional_routes   *)
(* flag of the target peer's entry.                                        *)
(***************************************************************************)
C15_ExtraRoutesFlagFromTarget ==
    \A e \in ProcessedEdges :
        /\ EdgeOf(e).HasExtraPeerRouteTables = cfg.Peers[TargetNameOf(e)].HasAdditionalRoutes
        /\ (SubnetRoutesOf(e) # {}) <=> cfg.Peers[TargetNameOf(e)].HasAdditionalRoutes

(***************************************************************************)
(* C16: for a configuration without dangling names, ConvertToPeerConfigs   *)
(* returns exactly one PeerConfig for each (source, target) pair named     *)
(* under a selected key and none besides, as many as there are distinct    *)
(* pairs; its source fields are the source peer's, its peer fields the     *)
(* target peer's, its Name the target's name.                              *)
(***************************************************************************)
SelectedPairs ==
    { <<source, target>> \in (DOMAIN cfg.PeeringMatrix) \X PeerNames :
        /\ sourceFilter = EmptyString \/ source = sourceFilter
        /\ target \in Range(cfg.PeeringMatrix[source]) }

EdgesOfPair(pair) ==
    {e \in 0..(Len(peerConfigs) - 1) : <<SourceNameOf(e), TargetNameOf(e)>> = pair}

C16_OneEdgePerPair ==
    (pc = "converted" /\ DanglingNames(cfg) = {}) =>
        /\ Len(peerConfigs) = Cardinality(SelectedPairs)
        /\ \A pair \in SelectedPairs : Cardinality(EdgesOfPair(pair)) = 1
        /\ \A e \in 0..(Len(peerConfigs) - 1) :
             /\ <<SourceNameOf(e), TargetNameOf(e)>> \in SelectedPairs
             /\ EdgeOf(e).SourceVpcId = cfg.Peers[SourceNameOf(e)].VpcId
             /\ EdgeOf(e).SourceRegion = cfg.Peers[SourceNameOf(e)].Region
             /\ EdgeOf(e).SourceRoleArn = cfg.Peers[SourceNameOf(e)].RoleArn
             /\ EdgeOf(e).PeerVpcId = cfg.Peers[TargetNameOf(e)].VpcId
             /\ EdgeOf(e).PeerRegion = cfg.Peers[TargetNameOf(e)].Region
             /\ EdgeOf(e).PeerRoleArn = cfg.Peers[TargetNameOf(e)].RoleArn
             /\ EdgeOf(e).Name = TargetNameOf(e)

(***************************************************************************)
(* C17: once the stack is built, every edge i has, under names ending in   *)
(* i, one output holding the id of the edge's peering link, one holding    *)
(* the id of its source main route table, one holding the id of its peer   *)
(* main route table and one holding its EnableDnsResolution; the outputs   *)
(* of an edge come before those of every later edge.                       *)
(***************************************************************************)
OutputsNamed(fmt, e) ==
    {k \in Declared("output") : resources[k].name = Sprintf(fmt, EmptyString, e)}

OutputsSuffixed(e) == {k \in Declared("output") : resources[k].name.d = e}

FullResourceSet(e) ==
    /\ Cardinality(OfEdge("provider", e)) = 2
    /\ Cardinality(OfEdge("data_aws_vpc", e)) = 2
    /\ Cardinality({k \in OfEdge("data_aws_route_table", e) : resources[k].attrs.ForEach = NoName}) = 2
    /\ Cardinality(Links(e)) = 1
    /\ Cardinality(Accepters(e)) = IF LinkAutoAccepts(e) THEN 0 ELSE 1
    /\ Cardinality(OptionsOf(e)) = 1
    /\ Cardinality(MainRoutesOf(e)) = 2
    /\ Cardinality(SubnetRoutesOf(e)) = IF EdgeOf(e).HasExtraPeerRouteTables THEN 2 ELSE 0
    /\ Cardinality(SubnetLookupsOf(e)) = IF EdgeOf(e).HasExtraPeerRouteTables THEN 4 ELSE 0

(***************************************************************************)
(* C18: an edge whose PeerRoleArn is not a well-formed role reference is   *)
(* built like any other (its full set of constructs is declared), and its  *)
(* link's PeerOwnerId is the empty string.                                 *)
(***************************************************************************)
C18_MalformedArnEmptyOwner ==
    \A e \in ProcessedEdges :
        ~WellFormedRoleArn(EdgeOf(e).PeerRoleArn) =>
            /\ FullResourceSet(e)
            /\ \A l \in Links(e) : resources[l].attrs.PeerOwnerId = EmptyString

(***************************************************************************)
(* C19: when a peer entry that a selected (source, target) pair uses has   *)
(* an empty vpc_id, the run ends in a fatal error with no PeerConfig and   *)
(* nothing declared.                                                       *)
(***************************************************************************)
LacksVpcId(name) == name \in DOMAIN cfg.Peers /\ cfg.Peers[name].VpcId = EmptyString

C19_MissingVpcIdRejected ==
    (/\ pc \notin {"start", "convert"}
     /\ DanglingNames(cfg) = {}
     /\ \E pair \in SelectedPairs : LacksVpcId(pair[1]) \/ LacksVpcId(pair[2])) =>
        /\ pc = "fatal"
        /\ peerConfigs = <<>>
        /\ resources = <<>>

(***************************************************************************)
(* C20: a run ends either built, with the full set of constructs of every  *)
(* PeerConfig and one PeerConfig for every target of every selected key,   *)
(* or in a fatal error with nothing declared; it ends nowhere else.        *)
(***************************************************************************)
C20_AllOrNothing ==
    /\ pc = "fatal" => (resources = <<>> /\ i = 0)
    /\ pc = "done" =>
         /\ i = Len(peerConfigs)
         /\ \A e \in 0..(Len(peerConfigs) - 1) : FullResourceSet(e)
         /\ \A source \in DOMAIN cfg.PeeringMatrix :
              (sourceFilter = EmptyString \/ source = sourceFilter) =>
                  Cardinality(ExpandedFrom(source)) = Len(cfg.PeeringMatrix[source])
    /\ pc \notin {"fatal", "done"} => ENABLED Next

C20_Witness ==
    /\ pc = "fatal"
    /\ fatal = Fatalf("missing peer config for %q", NameAB)
    /\ sourceFilter = NameA
    /\ DOMAIN cfg.Peers = {NameA}
    /\ NameA \in DOMAIN cfg.PeeringMatrix
    /\ Len(cfg.PeeringMatrix[NameA]) = 2
    /\ cfg.PeeringMatrix[NameA][1] = NameA
    /\ cfg.PeeringMatrix[NameA][2] = NameAB
    /\ resources = <<>>

(***************************************************************************)
(* C21: every processed edge has exactly one options construct, whether    *)
(* its link auto-accepts or not; it is evaluated under the source's        *)
(* credential context and depends on the edge's link, on the edge's        *)
(* accepter when there is one, and on nothing else.                        *)
(***************************************************************************)
NamesOf(S) == {resources[k].name : k \in S}

C21_OneOptionsPerEdge ==
    \A e \in ProcessedEdges :
        /\ Cardinality(OptionsOf(e)) = 1
        /\ \A o \in OptionsOf(e) :
             /\ IsSourceContext(resources[o].provider, e)
             /\ Range(resources[o].dependsOn) = NamesOf(Links(e)) \cup NamesOf(Accepters(e))
             /\ Len(resources[o].dependsOn) = Cardinality(Links(e)) + Cardinality(Accepters(e))

C21_Witness ==
    /\ pc = "done"
    /\ \E e1, e2 \in ProcessedEdges :
         /\ LinkAutoAccepts(e1)
         /\ \E o \in OptionsOf(e1) : resources[o].dependsOn = <<PeeringName(e1)>>
         /\ ~LinkAutoAccepts(e2)
         /\ \E o \in OptionsOf(e2) : resources[o].dependsOn = <<PeeringName(e2), AccepterName(e2)>>

(***************************************************************************)
(* C22: every declared credential context has a non-empty region: the      *)
(* region configured for its endpoint when there is one, "us-west-2"       *)
(* otherwise; and a peer entry whose document leaves a boolean flag out    *)
(* is loaded with that flag false.                                         *)
(***************************************************************************)
C22_RegionDefaulted ==
    /\ \A k \in Declared("provider") : resources[k].attrs.Region # ""
    /\ \A e \in ProcessedEdges :
         /\ ContextsNamed(SourceProviderName(e)) # {}
         /\ \A k \in ContextsNamed(SourceProviderName(e)) :
              resources[k].attrs.Region =
                 IF EdgeOf(e).SourceRegion # "" THEN EdgeOf(e).SourceRegion ELSE "us-west-2"
         /\ ContextsNamed(PeerProviderName(e)) # {}
         /\ \A k \in ContextsNamed(PeerProviderName(e)) :
              resources[k].attrs.Region =
                 IF EdgeOf(e).PeerRegion # "" THEN EdgeOf(e).PeerRegion ELSE "us-west-2"
    /\ \A name \in DOMAIN cfg.Peers :
         \A doc \in YAMLPeerDocs :
             Unmarshal(doc) = cfg.Peers[name] =>
                 /\ "dns_resolution" \notin DOMAIN doc => ~cfg.Peers[name].DnsResolution
                 /\ "has_additional_routes" \notin DOMAIN doc => ~cfg.Peers[name].HasAdditionalRoutes

C22_Witness ==
    /\ pc = "done"
    /\ \E e \in ProcessedEdges :
         /\ EdgeOf(e).SourceRegion = ""
         /\ EdgeOf(e).PeerRegion = "us-east-1"
         /\ RegionOfContext(SourceProviderName(e)) = "us-west-2"
         /\ RegionOfContext(PeerProviderName(e)) = "us-east-1"
         /\ \E doc \in YAMLPeerDocs :
              /\ Unmarshal(doc) = cfg.Peers[SourceNameOf(e)]
              /\ "dns_resolution" \notin DOMAIN doc

(***************************************************************************)
(* C23: the constructs of edge i are all declared before any construct of  *)
(* edge i+1; within an edge they come in the order providers, VPC lookups, *)
(* main route table lookups, link, accepter (if any), options, main        *)
(* routes, subnet lookups and routes (if any); outputs are declared only   *)
(* when the loop has run for the last edge, after everything else.         *)
(***************************************************************************)
StageOf(k) ==
    LET r == resources[k]
    IN  CASE r.kind = "variable" -> 0
          [] r.kind = "provider" -> 1
          [] r.kind = "data_aws_vpc" -> 2
          [] r.kind = "data_aws_route_table" /\ r.attrs.ForEach = NoName -> 3
          [] r.kind = "aws_vpc_peering_connection" -> 4
          [] r.kind = "aws_vpc_peering_connection_accepter" -> 5
          [] r.kind = "aws_vpc_peering_connection_options" -> 6
          [] r.kind = "aws_route" /\ r.attrs.ForEach = NoName -> 7
          [] r.kind = "output" -> 9
          [] OTHER -> 8

EdgeDeclarations == {k \in 1..Len(resources) : StageOf(k) \in 1..8}

C23_StrictSequence ==
    /\ \A k1, k2 \in EdgeDeclarations :
         k1 < k2 =>
             /\ resources[k1].edge <= resources[k2].edge
             /\ resources[k1].edge = resources[k2].edge => StageOf(k1) <= StageOf(k2)
    /\ \A k \in Declared("output") :
         /\ pc = "done"
         /\ i = Len(peerConfigs)
         /\ \A k1 \in EdgeDeclarations : k1 < k
    /\ \A e \in ProcessedEdges : \A stage \in {1, 2, 3, 4, 6, 7} :
         \E k \in EdgeDeclarations : resources[k].edge = e /\ StageOf(k) = stage

C23_Witness ==
    /\ pc = "done"
    /\ Len(peerConfigs) = 2
    /\ Accepters(0) # {}
    /\ SubnetRoutesOf(0) # {}
    /\ Accepters(1) = {}
    /\ Declared("output") # {}
    /\ \A k \in OfEdge("provider", 1) : \A k0 \in SubnetRoutesOf(0) : k0 < k

(***************************************************************************)
(* C24: at every point of the construction, each construct named in a      *)
(* declared construct's DependsOn, and the provider it is evaluated        *)
(* under, was declared strictly earlier and for the same edge; so nothing  *)
(* depends on itself, on something later or on another edge.               *)
(***************************************************************************)
NeededBy(k) ==
    Range(resources[k].dependsOn)
    \cup (IF resources[k].provider = NoName THEN {} ELSE {resources[k].provider})

C24_DependenciesEarlierSameEdge ==
    \A k \in 1..Len(resources) :
        \A name \in NeededBy(k) :
            /\ \E j \in 1..(k - 1) : resources[j].name = name
            /\ \A j \in 1..Len(resources) :
                 resources[j].name = name => (j < k /\ resources[j].edge = resources[k].edge)

C24_Witness ==
    /\ pc = "build"
    /\ i = 2
    /\ Len(peerConfigs) = 3
    /\ \E o \in OptionsOf(1) : Range(resources[o].dependsOn) = {PeeringName(1), AccepterName(1)}
    /\ \E r \in SubnetRoutesOf(1) : AccepterName(1) \in NeededBy(r)

(***************************************************************************)
(* C25: no two declared constructs of the same kind have the same name,    *)
(* also when one peer or one (source, target) pair occurs in several       *)
(* edges; the providers of edge i are SourceAWS<i> with alias source<i>    *)
(* and PeerAWS<i> with alias peer<i>.                                      *)
(***************************************************************************)
C25_UniqueNames ==
    /\ \A k1, k2 \in 1..Len(resources) :
         (k1 # k2 /\ resources[k1].kind = resources[k2].kind) =>
             resources[k1].name # resources[k2].name
    /\ \A e \in ProcessedEdges :
         /\ NamesOf(OfEdge("provider", e)) =
               {Sprintf("SourceAWS%d", EmptyString, e), Sprintf("PeerAWS%d", EmptyString, e)}
         /\ \A k \in OfEdge("provider", e) :
              /\ resources[k].name = Sprintf("SourceAWS%d", EmptyString, e) =>
                   resources[k].attrs.Alias = Sprintf("source%d", EmptyString, e)
              /\ resources[k].name = Sprintf("PeerAWS%d", EmptyString, e) =>
                   resources[k].attrs.Alias = Sprintf("peer%d", EmptyString, e)

C25_Witness ==
    /\ pc = "done"
    /\ Len(peerConfigs) = 3
    /\ peerConfigs[1] = peerConfigs[2]
    /\ peerConfigs[1].HasExtraPeerRouteTables
    /\ SourceNameOf(0) = SourceNameOf(1)
    /\ TargetNameOf(0) = TargetNameOf(1)
    /\ Cardinality(NamesOf(Declared("aws_route"))) = Cardinality(Declared("aws_route"))

(***************************************************************************)
(* C26: the PeerOwnerId of every edge's link is what                       *)
(* GetAccountIDFromRoleArn returns for the edge's PeerRoleArn (123 for     *)
(* arn:aws:iam::123:role/x, 456 for arn:aws:iam::456:role/y); it is not    *)
(* one value for all links and not read from the SourceRoleArn.            *)
(***************************************************************************)
C26_PeerOwnerFromPeerRole ==
    \A e \in ProcessedEdges :
        \A l \in Links(e) :
            /\ "PeerOwnerId" \in DOMAIN resources[l].attrs
            /\ resources[l].attrs.PeerOwnerId = GetAccountIDFromRoleArn(EdgeOf(e).PeerRoleArn)
            /\ EdgeOf(e).PeerRoleArn = ArnFoo => resources[l].attrs.PeerOwnerId = <<"1", "2", "3">>
            /\ EdgeOf(e).PeerRoleArn = ArnBar => resources[l].attrs.PeerOwnerId = <<"4", "5", "6">>

C26_Witness ==
    /\ pc = "done"
    /\ \E e1, e2 \in ProcessedEdges :
         /\ EdgeOf(e1).SourceRoleArn = ArnFoo
         /\ EdgeOf(e1).PeerRoleArn = ArnBar
         /\ \E l \in Links(e1) : resources[l].attrs.PeerOwnerId = <<"4", "5", "6">>
         /\ EdgeOf(e2).PeerRoleArn = ArnFoo
         /\ \E l \in Links(e2) : resources[l].attrs.PeerOwnerId = <<"1", "2", "3">>

(***************************************************************************)
(* C27: each main route of an edge depends on exactly the edge's link      *)
(* when the link auto-accepts, and on exactly the link and the accepter    *)
(* when it does not; the two main routes of an edge have the same          *)
(* DependsOn.                                                              *)
(***************************************************************************)
C27_MainRouteDependencies ==
    \A e \in ProcessedEdges :
        /\ \A k \in MainRoutesOf(e) :
             /\ Range(resources[k].dependsOn) =
                   IF LinkAutoAccepts(e)
                     THEN NamesOf(Links(e))
                     ELSE NamesOf(Links(e)) \cup NamesOf(Accepters(e))
             /\ Len(resources[k].dependsOn) = IF LinkAutoAccepts(e) THEN 1 ELSE 2
        /\ \A k1, k2 \in MainRoutesOf(e) : resources[k1].dependsOn = resources[k2].dependsOn

C27_Witness ==
    /\ pc = "done"
    /\ \E e1, e2 \in ProcessedEdges :
         /\ LinkAutoAccepts(e1)
         /\ Cardinality(MainRoutesOf(e1)) = 2
         /\ \A k \in MainRoutesOf(e1) : resources[k].dependsOn = <<PeeringName(e1)>>
         /\ ~LinkAutoAccepts(e2)
         /\ Cardinality(MainRoutesOf(e2)) = 2
         /\ \A k \in MainRoutesOf(e2) : resources[k].dependsOn = <<PeeringName(e2), AccepterName(e2)>>

(***************************************************************************)
(* C28: an edge with the HasExtraPeerRouteTables flag has one subnet       *)
(* discovery per side, the source's on tag:cdktf-source-main-rt in the     *)
(* source VPC, the peer's on tag:cdktf-peer-main-rt in the peer VPC; on    *)
(* each side one route-table lookup and one route fan out over what that   *)
(* side's discovery finds (one instance per id, none for none); the route  *)
(* goes to the other side's VPC address block through the edge's link,     *)
(* under its own side's credential context, with the DependsOn of the      *)
(* main routes.                                                            *)
(***************************************************************************)
DiscoveriesOn(e, tag) ==
    {k \in OfEdge("data_aws_subnets", e) : resources[k].attrs.Filter[2][1] = tag}

FanOutOver(e, kind, discovery) ==
    {k \in OfEdge(kind, e) : resources[k].attrs.ForEach = resources[discovery].name}

SubnetSideAsClaimed(e, tag, vpcId, otherVpcName, ownSide) ==
    /\ Cardinality(DiscoveriesOn(e, tag)) = 1
    /\ \A s \in DiscoveriesOn(e, tag) :
         /\ resources[s].attrs.Filter[1] = <<"vpc-id", vpcId>>
         /\ IF ownSide = "source" THEN IsSourceContext(resources[s].provider, e)
                                  ELSE IsPeerContext(resources[s].provider, e)
         /\ Cardinality(FanOutOver(e, "data_aws_route_table", s)) = 1
         /\ Cardinality(FanOutOver(e, "aws_route", s)) = 1
         /\ \A r \in FanOutOver(e, "aws_route", s) :
              /\ resources[r].provider = resources[s].provider
              /\ resources[r].attrs.DestinationCidrBlock = CidrBlock(otherVpcName)
              /\ \E l \in Links(e) : resources[r].attrs.VpcPeeringConnectionId = Id(resources[l].name)
              /\ \A m \in MainRoutesOf(e) : resources[r].dependsOn = resources[m].dependsOn
              /\ resources[r].attrs.RouteTableId.attr = "[each.key].id"
              /\ \E t \in FanOutOver(e, "data_aws_route_table", s) :
                   /\ resources[t].name = resources[r].attrs.RouteTableId.ref
                   /\ resources[t].provider = resources[s].provider
                   /\ resources[t].attrs.SubnetId = "${each.value}"

C28_SubnetRoutesPerSide ==
    \A e \in ProcessedEdges :
        EdgeOf(e).HasExtraPeerRouteTables =>
            /\ Cardinality(OfEdge("data_aws_subnets", e)) = 2
            /\ Cardinality(SubnetRoutesOf(e)) = 2
            /\ SubnetSideAsClaimed(e, "tag:cdktf-source-main-rt", EdgeOf(e).SourceVpcId,
                                   PeerVpcName(e), "source")
            /\ SubnetSideAsClaimed(e, "tag:cdktf-peer-main-rt", EdgeOf(e).PeerVpcId,
                                   SourceVpcName(e), "peer")

C28_Witness ==
    /\ pc = "done"
    /\ \E e \in ProcessedEdges :
         /\ EdgeOf(e).HasExtraPeerRouteTables
         /\ ~LinkAutoAccepts(e)
         /\ EdgeOf(e).SourceVpcId # EdgeOf(e).PeerVpcId
         /\ Cardinality(DiscoveriesOn(e, "tag:cdktf-source-main-rt")) = 1
         /\ Cardinality(DiscoveriesOn(e, "tag:cdktf-peer-main-rt")) = 1
         /\ \A r \in SubnetRoutesOf(e) : Len(resources[r].dependsOn) = 2

(***************************************************************************)
(* C29: auto-accept follows the regions after defaulting: an edge with one *)
(* endpoint's region left out and the other's left out too or given as     *)
(* "us-west-2" has an auto-accepted link and no accepter; an edge with one *)
(* endpoint's region left out and the other's given as another region has  *)
(* a link that is not auto-accepted.                                       *)
(***************************************************************************)
OneRegionUnset(e) == EdgeOf(e).SourceRegion = "" \/ EdgeOf(e).PeerRegion = ""

OtherRegionDefault(e) ==
    /\ EdgeOf(e).SourceRegion \in {"", "us-west-2"}
    /\ EdgeOf(e).PeerRegion \in {"", "us-west-2"}

C29_AutoAcceptAfterDefaulting ==
    \A e \in ProcessedEdges :
        OneRegionUnset(e) =>
            /\ Links(e) # {}
            /\ IF OtherRegionDefault(e)
                 THEN /\ \A k \in Links(e) : resources[k].attrs.AutoAccept
                      /\ Accepters(e) = {}
                 ELSE \A k \in Links(e) : ~resources[k].attrs.AutoAccept

C29_Witness ==
    /\ pc = "done"
    /\ \E e \in ProcessedEdges :
         /\ {EdgeOf(e).SourceRegion, EdgeOf(e).PeerRegion} = {"", "us-west-2"}
         /\ LinkAutoAccepts(e)
         /\ Accepters(e) = {}
    /\ \E e \in ProcessedEdges :
         /\ EdgeOf(e).SourceRegion = "" /\ EdgeOf(e).PeerRegion = ""
         /\ LinkAutoAccepts(e)
         /\ Accepters(e) = {}

(***************************************************************************)
(* C30: a link carries the PeerRegion attribute exactly when the regions   *)
(* of the edge's source and peer credential contexts differ, and then it   *)
(* is the peer's region; so the attribute is set exactly on the links that *)
(* are not auto-accepted and have an accepter, and on no same-region link. *)
(***************************************************************************)
C30_PeerRegionIffRegionsDiffer ==
    \A e \in ProcessedEdges :
        \A k \in Links(e) :
            /\ resources[k].attrs.PeerRegion # {}
                 <=> RegionOfContext(SourceProviderName(e)) # RegionOfContext(PeerProviderName(e))
            /\ resources[k].attrs.PeerRegion # {}
                 <=> (~resources[k].attrs.AutoAccept /\ Accepters(e) # {})
            /\ resources[k].attrs.PeerRegion \subseteq {RegionOfContext(PeerProviderName(e))}

C30_Witness ==
    /\ pc = "done"
    /\ \E e \in ProcessedEdges :
         /\ EdgeOf(e).SourceRegion = "" /\ EdgeOf(e).PeerRegion = "us-east-1"
         /\ \E k \in Links(e) : resources[k].attrs.PeerRegion = {"us-east-1"}
         /\ Accepters(e) # {}
    /\ \E e \in ProcessedEdges :
         /\ EdgeOf(e).SourceRegion = "" /\ EdgeOf(e).PeerRegion = ""
         /\ \E k \in Links(e) : resources[k].attrs.PeerRegion = {}
         /\ Accepters(e) = {}

====
